---- MODULE Spec2Model ----
(***************************************************************************)
(* A model of shlurp: the GitHub issue scraper (github_scraper.py), the    *)
(* LLM summarizer (llm_summarizer.py), the helpers of utils.py and the     *)
(* click commands of main.py.                                              *)
(*                                                                         *)
(* The program is single-threaded.  Each component is explored by its own  *)
(* specification, whose Init draws the component's inputs from bounded     *)
(* sets:                                                                   *)
(*   SpecFetch   GitHubScraper.fetch_issues over GitHubScraper._make_request*)
(*   SpecRender  GitHubScraper.save_issues from the fetched issues on:     *)
(*               split_into_chunks, issues_to_markdown, fetch_comments     *)
(*   SpecCli     the commands of main.py and the order of their steps      *)
(*   SpecSumm    LLMSummarizer.summarize_repository: _chunk_content,       *)
(*               summarize_content, _call_llm                              *)
(*   SpecRequest GitHubScraper._make_request alone, one call at a time     *)
(*   SpecChunk   LLMSummarizer._chunk_content alone, for any budget        *)
(*   SpecSaveLoad save_issues, repeated, then utils.load_issue_files       *)
(* The variables of the other components keep their initial value.         *)
(***************************************************************************)
EXTENDS Integers, Sequences, FiniteSets, TLC

----------------------------------------------------------------------------
(* Bounds of the exploration *)

\* pages one fetch may request
MaxPages == 3
\* nesting depth of _make_request's recursive call after a rate-limit sleep
MaxDepth == 2
\* |X-RateLimit-Reset - int(time.time())| of a rate-limited response
MaxSkew == 2
\* issues handed to save_issues, and the largest max_issues_per_file
MaxIssues == 3
MaxPerFile == 3
\* characters of a rendered document before its first issue block
HeaderLen == 100
\* issue blocks of a repository's documents, and documents of a repository
MaxBlocks == 3
MaxDocs == 2
\* positions the tracker's list may have moved by during one fetch
MaxDrift == 1

(* Constants of the program *)

\* @retry(stop=stop_after_attempt(3), ...)
stop_after_attempt == 3
\* per_page = 100
per_page == 100
\* @click.option('--max-per-file', type=int, default=50, ...)
default_max_per_file == 50
\* def _chunk_content(self, content, max_tokens: int = 100000)
default_max_tokens == 100000

----------------------------------------------------------------------------
(* Python values *)

\* Optional[T]: None is <<>>, a value v is <<v>>
None == <<>>
Some(v) == <<v>>

\* bool(x) of an Optional[int]: None and 0 are falsy
Truthy(opt) == opt # None /\ opt[1] # 0

Min(a, b) == IF a <= b THEN a ELSE b

\* s[:n] for n >= 0
Take(s, n) == SubSeq(s, 1, Min(n, Len(s)))

\* s[a:b] (0-based, half open) for 0 <= a <= b
Slice(s, a, b) == SubSeq(s, Min(a, Len(s)) + 1, Min(b, Len(s)))

Last(s) == s[Len(s)]
Front(s) == SubSeq(s, 1, Len(s) - 1)

----------------------------------------------------------------------------
VARIABLES
  \* GitHubScraper._make_request (with tenacity's retry around it)
  stack,       \* the live invocations of _make_request, outermost first:
               \* [url, params, attempt], attempt = tenacity's attempt_number
  phase,       \* "idle" | "get" | "sleep" | "ret" | "exc"
  response,    \* the response last received from the server (None before)
  resetIn,     \* X-RateLimit-Reset - int(time.time()), as time passes
  exception,   \* the exception _make_request raised to its caller ("none")
  \* GitHubScraper.fetch_issues
  max_issues,  \* Optional[int]
  page,
  issues,
  fpc,         \* "idle" | "loop" | "returned" | "raised"
  drift,       \* the tracker during the fetch: issues opened minus issues
               \* closed among the newest since the first page was answered
  \* the fetch-issues command and GitHubScraper.save_issues
  no_comments,          \* the --no-comments flag of the command
  max_issues_per_file,
  fetched,              \* what fetch_issues returned to save_issues
  chunks,               \* split_into_chunks(issues, max_issues_per_file)
  ci,                   \* enumerate(chunks, 1): the chunk being rendered
  ii,                   \* the issue of the chunk being rendered (from 1)
  markdown_parts,       \* the issue blocks rendered so far for the chunk
  files,                \* the output directory: a set of [name, content]
  saved_files,
  commentRequests,      \* issue numbers a comments request was sent for
  rpc,         \* "idle" | "start" | "issue" | "comments" | "returned" | "raised"
  \* the commands of main.py
  command,     \* "fetch-issues" | "summarize" | "fetch-and-summarize"
  opts,        \* the command line: repo_url (whether parse_github_url
               \* matches it), --token (given or not), --provider
  env,         \* the environment: GITHUB_TOKEN, OPENAI_API_KEY and
               \* ANTHROPIC_API_KEY (set or not), LLM_PROVIDER
  cpc,         \* the step of the command, "done" or "exit1"
  error,       \* what ended the command: "none", "config", "fetch",
               \* "not_found", "llm"
  githubRequests,  \* whether a request went to the issue tracker's API
  llmRequests,     \* whether a request went to an LLM API
  \* LLMSummarizer.summarize_repository and summarize_content
  issue_contents,  \* the texts load_issue_files returned
  content,         \* combined_content
  content_chunks,  \* chunks = self._chunk_content(content)
  chunk_summaries,
  llmCalls,        \* the calls made to the LLM API: [prompt, outcome]
  summary,         \* what summarize_content returned (None before)
  summaryFiles,    \* the summary files written
  mpc,         \* "idle" | "start" | "single" | "parts" | "final" |
               \* "write" | "done" | "raised"; "chunk" | "chunked" for
               \* _chunk_content alone, "loaded" for load_issue_files alone
  \* one call of LLMSummarizer._chunk_content(content, max_tokens)
  budget,      \* its argument max_tokens
  \* one call of _make_request, observed
  getFailures  \* the session.get attempts made for the call that raised
               \* without being a 403 with zero quota left

reqVars == <<stack, phase, response, resetIn, exception>>
fetchVars == <<max_issues, page, issues, fpc, drift>>
renderVars == <<no_comments, max_issues_per_file, fetched, chunks, ci, ii,
                markdown_parts, files, saved_files, commentRequests, rpc>>
cliVars == <<command, opts, env, cpc, error, githubRequests, llmRequests>>
summVars == <<issue_contents, content, content_chunks, chunk_summaries,
              llmCalls, summary, summaryFiles, mpc>>
callVars == <<getFailures>>
chunkVars == <<budget>>

----------------------------------------------------------------------------
(* The issue tracker's API, seen from the client *)

IssuesUrl == [path |-> "issues", number |-> 0]
CommentsUrl(n) == [path |-> "comments", number |-> n]

\* the numbers of the tracker's items, newest first (direction=desc)
TopNumber == MaxPages * per_page

\* the items of page p when the API returns n of them, those at the
\* positions prs being pull requests (they carry the key 'pull_request')
PageItems(p, n, prs) ==
  [i \in 1..n |-> [number |-> TopNumber - ((p - 1) * per_page + (i - 1)),
                   pull_request |-> i \in prs]]

PageSizes == {0, 1, per_page - 1, per_page}
PrPositions == {{}, {1}}
\* the Link header: absent, with rel="next", or without it
Links == {"absent", "next", "last"}

\* 200 responses to the issues request of page p
IssuePages(p) ==
  { [status |-> 200, json |-> PageItems(p, n, prs), link |-> l,
     remaining |-> None, resetDelta |-> 0] :
      n \in PageSizes, prs \in PrPositions, l \in Links }

\* the response r when the list has moved down by d positions since the
\* numbering of PageItems: the item at a position is the one that was d
\* positions above it
Drifted(r, d) ==
  [r EXCEPT !.json = [i \in DOMAIN @ |-> [@[i] EXCEPT !.number = @ + d]]]

\* responses that are failures: a 5xx, a 403 without the rate-limit header
\* or with quota left, a 403 with zero quota left and a reset time
ErrorResponses ==
  { [status |-> 500, json |-> <<>>, link |-> "absent",
     remaining |-> None, resetDelta |-> 0],
    [status |-> 403, json |-> <<>>, link |-> "absent",
     remaining |-> None, resetDelta |-> 0],
    [status |-> 403, json |-> <<>>, link |-> "absent",
     remaining |-> Some(1), resetDelta |-> 0] }
  \cup
  { [status |-> 403, json |-> <<>>, link |-> "absent",
     remaining |-> Some(0), resetDelta |-> d] : d \in (0 - MaxSkew)..MaxSkew }

----------------------------------------------------------------------------
(* GitHubScraper._make_request *)

\* response.status_code == 403, 'X-RateLimit-Remaining' in the headers,
\* remaining == 0
RateLimitExhausted(r) ==
  r.status = 403 /\ r.remaining # None /\ r.remaining[1] = 0

\* sleep_time = reset_time - int(time.time()) + 1
sleep_time(r) == r.resetDelta + 1

\* if sleep_time > 0: the request sleeps and calls itself again
WaitsForReset(r) == RateLimitExhausted(r) /\ sleep_time(r) > 0

\* response.raise_for_status(): raises HTTPError for a 4xx or 5xx
RaisesForStatus(r) == r.status >= 400

\* tenacity, when the attempt of the innermost invocation of s raised: it
\* is made again while attempt_number < 3; otherwise RetryError is raised
\* (reraise is not set), which is an exception of the attempt of the
\* enclosing invocation, handled there the same way
RECURSIVE AfterRaise(_)
AfterRaise(s) ==
  IF s = <<>> THEN <<>>
  ELSE IF Last(s).attempt >= stop_after_attempt THEN AfterRaise(Front(s))
  ELSE Front(s) \o <<[Last(s) EXCEPT !.attempt = @ + 1]>>

\* the caller calls self._make_request(url, params)
CallMakeRequest(url, params) ==
  /\ stack' = <<[url |-> url, params |-> params, attempt |-> 1]>>
  /\ phase' = "get"
  /\ exception' = "none"
  /\ UNCHANGED <<response, resetIn>>

\* the attempt of the innermost invocation raised
AttemptRaised ==
  /\ stack' = AfterRaise(stack)
  /\ phase' = IF AfterRaise(stack) = <<>> THEN "exc" ELSE "get"
  /\ exception' = IF AfterRaise(stack) = <<>> THEN "RetryError" ELSE "none"

\* session.get answers 200: raise_for_status passes and the response is
\* returned, through every enclosing invocation, to the caller
GetOk(r) ==
  /\ phase = "get"
  /\ ~RaisesForStatus(r)
  /\ response' = Some(r)
  /\ stack' = <<>>
  /\ phase' = "ret"
  /\ UNCHANGED <<resetIn, exception>>

\* session.get raises (ConnectionError, Timeout: RequestException)
GetConnectionError ==
  /\ phase = "get"
  /\ response' = None
  /\ AttemptRaised
  /\ UNCHANGED resetIn

\* session.get answers 4xx/5xx
GetError(r) ==
  /\ phase = "get"
  /\ RaisesForStatus(r)
  /\ response' = Some(r)
  /\ IF WaitsForReset(r)
     THEN /\ Len(stack) < MaxDepth
          /\ phase' = "sleep"
          /\ resetIn' = r.resetDelta
          /\ UNCHANGED <<stack, exception>>
     ELSE /\ AttemptRaised
          /\ UNCHANGED resetIn

\* time.sleep(sleep_time); return self._make_request(url, params)
SleepAndRetry ==
  /\ phase = "sleep"
  /\ resetIn' = resetIn - sleep_time(response[1])
  /\ stack' = Append(stack, [url |-> Last(stack).url,
                             params |-> Last(stack).params, attempt |-> 1])
  /\ phase' = "get"
  /\ UNCHANGED <<response, exception>>

----------------------------------------------------------------------------
(* GitHubScraper.fetch_issues *)

\* [issue for issue in page_issues if 'pull_request' not in issue]
IsIssue(item) == ~item.pull_request
WithoutPullRequests(items) == SelectSeq(items, IsIssue)

\* if max_issues and len(issues) >= max_issues
CapReached(all, cap) == Truthy(cap) /\ Len(all) >= cap[1]

\* whether the loop goes on to the next page after this response
MorePages(r, page_issues) ==
  IF r.link # "absent" THEN r.link = "next"
  ELSE ~(Len(page_issues) < per_page)

\* the loop requests the current page
FetchRequestPage ==
  /\ fpc = "loop"
  /\ phase = "idle"
  /\ page <= MaxPages
  /\ CallMakeRequest(IssuesUrl, Some(page))
  /\ UNCHANGED fetchVars

\* the server answers the request in flight
ServerAnswersPage ==
  /\ fpc = "loop"
  /\ \/ \E r \in IssuePages(page) : GetOk(Drifted(r, drift))
     \/ \E r \in ErrorResponses : GetError(r)
     \/ GetConnectionError
  /\ UNCHANGED fetchVars

FetchSleeps ==
  /\ fpc = "loop"
  /\ SleepAndRetry
  /\ UNCHANGED fetchVars

\* the loop body after _make_request returned
FetchProcessPage ==
  /\ fpc = "loop"
  /\ phase = "ret"
  /\ phase' = "idle"
  /\ LET r == response[1]
         page_issues == WithoutPullRequests(r.json)
         all == issues \o page_issues
     IN IF r.json = <<>>
        THEN /\ fpc' = "returned"
             /\ UNCHANGED <<issues, page>>
        ELSE IF CapReached(all, max_issues)
        THEN /\ issues' = Take(all, max_issues[1])
             /\ fpc' = "returned"
             /\ UNCHANGED page
        ELSE /\ issues' = all
             /\ IF MorePages(r, page_issues)
                THEN page' = page + 1 /\ fpc' = "loop"
                ELSE page' = page /\ fpc' = "returned"
  /\ UNCHANGED <<stack, response, resetIn, exception, max_issues, drift>>

\* except requests.exceptions.RequestException: break.  Any other
\* exception leaves fetch_issues.
IsRequestException(e) == e \in {"HTTPError", "ConnectionError"}

FetchHandleException ==
  /\ fpc = "loop"
  /\ phase = "exc"
  /\ phase' = "idle"
  /\ fpc' = IF IsRequestException(exception) THEN "returned" ELSE "raised"
  /\ UNCHANGED <<stack, response, resetIn, exception, max_issues, page,
                 issues, drift>>

\* between two page requests an issue is opened on the tracker: with
\* direction=desc it becomes the first item and every other item moves
\* down by one position
TrackerOpensIssue ==
  /\ fpc = "loop"
  /\ phase = "idle"
  /\ page > 1
  /\ page <= MaxPages
  /\ drift < MaxDrift
  /\ drift' = drift + 1
  /\ UNCHANGED <<max_issues, page, issues, fpc>>
  /\ UNCHANGED reqVars

\* between two page requests an issue of a page already fetched is closed:
\* state=open no longer lists it and every item below it moves up by one
TrackerClosesIssue ==
  /\ fpc = "loop"
  /\ phase = "idle"
  /\ page > 1
  /\ page <= MaxPages
  /\ drift > 0 - MaxDrift
  /\ drift' = drift - 1
  /\ UNCHANGED <<max_issues, page, issues, fpc>>
  /\ UNCHANGED reqVars

----------------------------------------------------------------------------
(* utils.split_into_chunks and utils.get_repo_filename *)

\* for i in range(0, len(items), chunk_size): chunks.append(items[i:i + chunk_size])
RECURSIVE SplitFrom(_, _, _)
SplitFrom(items, chunk_size, i) ==
  IF i >= Len(items) THEN <<>>
  ELSE <<Slice(items, i, i + chunk_size)>>
         \o SplitFrom(items, chunk_size, i + chunk_size)

\* a variant of split_into_chunks whose slices overlap by one item
split_into_chunks_overlapping(items, chunk_size) ==
  [c \in 1..Len(SplitFrom(items, chunk_size, 0)) |->
     Slice(items, (c - 1) * chunk_size, c * chunk_size + 1)]

split_into_chunks(items, chunk_size) == SplitFrom(items, chunk_size, 0)

\* the name of the file of chunk i of n: {owner}_{repo}_issues_{i}.md when
\* there are several chunks, {owner}_{repo}_issues.md when there is one
IssuesFilename(i, n) ==
  IF n > 1 THEN [stem |-> "issues", index |-> Some(i)]
  ELSE [stem |-> "issues", index |-> None]

\* open(filepath, 'w'); f.write(content)
WriteFile(dir, name, text) ==
  {f \in dir : f.name # name} \cup {[name |-> name, content |-> text]}

\* the decimal digits of i >= 0, as str(i) writes them
RECURSIVE DecimalDigits(_)
DecimalDigits(i) ==
  IF i < 10 THEN <<i>> ELSE Append(DecimalDigits(i \div 10), i % 10)

\* the characters of a file name after "{owner}_{repo}_issues", as code
\* points: "_", the digits of the index and ".md", or ".md" alone
NameTail(name) ==
  IF name.index = None THEN <<46, 109, 100>>
  ELSE <<95>> \o [d \in 1..Len(DecimalDigits(name.index[1])) |->
                   48 + DecimalDigits(name.index[1])[d]]
            \o <<46, 109, 100>>

\* a < b for two strings: the order of sorted() on paths of one directory
RECURSIVE StrLess(_, _)
StrLess(a, b) ==
  IF b = <<>> THEN FALSE
  ELSE IF a = <<>> THEN TRUE
  ELSE IF Head(a) # Head(b) THEN Head(a) < Head(b)
  ELSE StrLess(Tail(a), Tail(b))

\* sorted(paths), for files of one directory
RECURSIVE SortedPaths(_)
SortedPaths(fs) ==
  IF fs = {} THEN <<>>
  ELSE LET first == CHOOSE f \in fs :
                      \A g \in fs \ {f} : StrLess(NameTail(f.name), NameTail(g.name))
       IN <<first>> \o SortedPaths(fs \ {first})

\* issues_path.glob(f"{repo_name}_issues_*.md"): the files whose name has
\* "_issues_" after the repository's name
GlobIssuesStar(dir) == {f \in dir : f.name.stem = "issues" /\ f.name.index # None}

\* issues_path.glob(f"{repo_name}_*.md")
GlobRepoStar(dir) == dir

\* utils.load_issue_files: the contents of the files matching the first
\* pattern, or of those matching the second when none matches the first,
\* in the order of their sorted paths; FileNotFoundError when there is none
load_issue_files(dir) ==
  LET found == IF GlobIssuesStar(dir) # {} THEN GlobIssuesStar(dir)
               ELSE GlobRepoStar(dir)
      paths == SortedPaths(found)
  IN IF found = {} THEN [kind |-> "raise", contents |-> <<>>]
     ELSE [kind |-> "return",
           contents |-> [i \in 1..Len(paths) |-> paths[i].content]]

----------------------------------------------------------------------------
(* GitHubScraper.save_issues, issues_to_markdown, fetch_comments *)

\* the fetch_comments argument issues_to_markdown is called with:
\* save_issues calls issues_to_markdown(chunk, owner, repo), so the
\* parameter keeps its default, True, whatever the command's flag was
RenderFetchComments(flag) == TRUE

\* the block of one issue: its header, metadata and description, and the
\* comments section when there are comments to show
IssueBlock(issue, comments) ==
  [number |-> issue.number, comments |-> comments]

\* the rendered document of a chunk: the title, the total and the blocks
Document(chunk, blocks) == [total |-> Len(chunk), blocks |-> blocks]

\* 200 responses to the comments request of issue n
CommentPages(n) ==
  { [status |-> 200, json |-> js, link |-> "absent",
     remaining |-> None, resetDelta |-> 0] :
      js \in { <<>>, <<[issue |-> n, id |-> 1]>>,
               <<[issue |-> n, id |-> 1], [issue |-> n, id |-> 2]>> } }

\* what follows the block of an issue: the next issue of the chunk, or the
\* chunk's file is written and the next chunk starts, or save_issues returns
AfterBlock(blocks) ==
  IF ii < Len(chunks[ci])
  THEN /\ markdown_parts' = blocks
       /\ ii' = ii + 1
       /\ rpc' = "issue"
       /\ UNCHANGED <<ci, files, saved_files>>
  ELSE /\ files' = WriteFile(files, IssuesFilename(ci, Len(chunks)),
                             Document(chunks[ci], blocks))
       /\ saved_files' = Append(saved_files, IssuesFilename(ci, Len(chunks)))
       /\ markdown_parts' = <<>>
       /\ ii' = 1
       /\ ci' = ci + 1
       /\ rpc' = IF ci < Len(chunks) THEN "issue" ELSE "returned"

\* save_issues up to the first chunk: nothing is written when no issue was
\* fetched
SaveIssuesStart ==
  /\ rpc = "start"
  /\ IF fetched = <<>>
     THEN rpc' = "returned" /\ UNCHANGED chunks
     ELSE /\ chunks' = split_into_chunks(fetched, max_issues_per_file)
          /\ rpc' = "issue"
  /\ UNCHANGED <<no_comments, max_issues_per_file, fetched, ci, ii,
                 markdown_parts, files, saved_files, commentRequests>>
  /\ UNCHANGED reqVars

\* issues_to_markdown renders the next issue: either it needs no comments,
\* or fetch_comments sends the comments request
RenderIssue ==
  /\ rpc = "issue"
  /\ LET issue == chunks[ci][ii]
     IN IF RenderFetchComments(~no_comments) /\ issue.comments > 0
        THEN /\ CallMakeRequest(CommentsUrl(issue.number), None)
             /\ commentRequests' = commentRequests \cup {issue.number}
             /\ rpc' = "comments"
             /\ UNCHANGED <<ci, ii, markdown_parts, files, saved_files>>
        ELSE /\ AfterBlock(Append(markdown_parts, IssueBlock(issue, <<>>)))
             /\ UNCHANGED commentRequests
             /\ UNCHANGED reqVars
  /\ UNCHANGED <<no_comments, max_issues_per_file, fetched, chunks>>

ServerAnswersComments ==
  /\ rpc = "comments"
  /\ \/ \E r \in CommentPages(chunks[ci][ii].number) : GetOk(r)
     \/ \E r \in ErrorResponses : GetError(r)
     \/ GetConnectionError
  /\ UNCHANGED renderVars

RenderSleeps ==
  /\ rpc = "comments"
  /\ SleepAndRetry
  /\ UNCHANGED renderVars

\* fetch_comments returns response.json(); the comments section is added
\* when the list is not empty
FetchCommentsReturn ==
  /\ rpc = "comments"
  /\ phase = "ret"
  /\ phase' = "idle"
  /\ AfterBlock(Append(markdown_parts,
                       IssueBlock(chunks[ci][ii], response[1].json)))
  /\ UNCHANGED <<stack, response, resetIn, exception>>
  /\ UNCHANGED <<no_comments, max_issues_per_file, fetched, chunks,
                 commentRequests>>

\* except requests.exceptions.RequestException: return [].  Any other
\* exception leaves fetch_comments, issues_to_markdown and save_issues.
FetchCommentsException ==
  /\ rpc = "comments"
  /\ phase = "exc"
  /\ phase' = "idle"
  /\ IF IsRequestException(exception)
     THEN AfterBlock(Append(markdown_parts, IssueBlock(chunks[ci][ii], <<>>)))
     ELSE /\ rpc' = "raised"
          /\ UNCHANGED <<ci, ii, markdown_parts, files, saved_files>>
  /\ UNCHANGED <<stack, response, resetIn, exception>>
  /\ UNCHANGED <<no_comments, max_issues_per_file, fetched, chunks,
                 commentRequests>>

RenderIdle ==
  /\ no_comments = FALSE
  /\ max_issues_per_file = 1
  /\ fetched = <<>>
  /\ chunks = <<>>
  /\ ci = 1
  /\ ii = 1
  /\ markdown_parts = <<>>
  /\ files = {}
  /\ saved_files = <<>>
  /\ commentRequests = {}
  /\ rpc = "idle"

----------------------------------------------------------------------------
(* main.py: fetch_issues, summarize, fetch_and_summarize *)

\* GitHubScraper.__init__: token = github_token or os.getenv('GITHUB_TOKEN');
\* ValueError without one
HasGithubToken(o, e) == o.token \/ e.GITHUB_TOKEN

\* LLMSummarizer.__init__: provider or os.getenv('LLM_PROVIDER', 'openai')
Provider(o, e) ==
  IF o.provider # None THEN o.provider[1]
  ELSE IF e.LLM_PROVIDER # None THEN e.LLM_PROVIDER[1]
  ELSE "openai"

\* LLMSummarizer._initialize_client: ValueError when the provider's key is
\* not in the environment, or the provider is neither of the two
InitializeClientFails(o, e) ==
  IF Provider(o, e) = "openai" THEN ~e.OPENAI_API_KEY
  ELSE IF Provider(o, e) = "anthropic" THEN ~e.ANTHROPIC_API_KEY
  ELSE TRUE

\* the first step of each command
FirstStep(c) == IF c = "summarize" THEN "summarizer" ELSE "parse_url"

\* print_error(...); sys.exit(1)
Exit1(why) ==
  /\ cpc' = "exit1"
  /\ error' = why
  /\ UNCHANGED <<command, opts, env, githubRequests, llmRequests>>

Step(next) ==
  /\ cpc' = next
  /\ UNCHANGED <<command, opts, env, error, githubRequests, llmRequests>>

\* owner, repo = parse_github_url(repo_url)
CliParseUrl ==
  /\ cpc = "parse_url"
  /\ IF opts.repo_url THEN Step("scraper") ELSE Exit1("config")

\* scraper = GitHubScraper(github_token=token)
CliMakeScraper ==
  /\ cpc = "scraper"
  /\ IF HasGithubToken(opts, env) THEN Step("save_issues") ELSE Exit1("config")

\* saved_files = scraper.save_issues(...): fetch_issues sends its first
\* page request; files are saved, or no issue was found, or the fetch or
\* the rendering raised
CliSaveIssues ==
  /\ cpc = "save_issues"
  /\ githubRequests' = TRUE
  /\ \E result \in {"saved", "empty", "raised"} :
       /\ cpc' = IF result = "raised" THEN "exit1"
                 ELSE IF command = "fetch-issues" \/ result = "empty" THEN "done"
                 ELSE "summarizer"
       /\ error' = IF result = "raised" THEN "fetch" ELSE error
  /\ UNCHANGED <<command, opts, env, llmRequests>>

\* summarizer = LLMSummarizer(provider=provider, model=model)
CliMakeSummarizer ==
  /\ cpc = "summarizer"
  /\ IF InitializeClientFails(opts, env)
     THEN Exit1("config")
     ELSE Step("summarize_repository")

\* summarizer.summarize_repository(...): no issue file is found, or the LLM
\* is called and the summary written, or an LLM call raised
CliSummarizeRepository ==
  /\ cpc = "summarize_repository"
  /\ \E result \in {"not_found", "written", "raised"} :
       /\ llmRequests' = (result # "not_found")
       /\ cpc' = IF result = "written" THEN "done" ELSE "exit1"
       /\ error' = IF result = "written" THEN error
                   ELSE IF result = "raised" THEN "llm" ELSE "not_found"
  /\ UNCHANGED <<command, opts, env, githubRequests>>

CliIdle ==
  /\ command = "none"
  /\ opts = [repo_url |-> TRUE, token |-> FALSE, provider |-> None]
  /\ env = [GITHUB_TOKEN |-> FALSE, LLM_PROVIDER |-> None,
            OPENAI_API_KEY |-> FALSE, ANTHROPIC_API_KEY |-> FALSE]
  /\ cpc = "idle"
  /\ error = "none"
  /\ githubRequests = FALSE
  /\ llmRequests = FALSE

----------------------------------------------------------------------------
(* Texts.  A text is kept as the sequence of the pieces that               *)
(* re.split(r'(?=## Issue #\d+:)', text) cuts it into: every piece but the *)
(* first starts with an issue header; a piece has a length in characters,  *)
(* is blank (whitespace only) or not, and names the issues whose blocks it *)
(* holds.                                                                  *)

Piece(marker, len, blank, ids) ==
  [marker |-> marker, len |-> len, blank |-> blank, ids |-> ids]

RECURSIVE TextLen(_)
TextLen(t) == IF t = <<>> THEN 0 ELSE Head(t).len + TextLen(Tail(t))

\* a + sep + b, sep being whitespace of sepLen characters: what precedes
\* the first issue header of b continues the last piece of a
ConcatText(a, sepLen, b) ==
  IF a = <<>> THEN b
  ELSE IF b = <<>> \/ Head(b).marker
  THEN Front(a) \o <<[Last(a) EXCEPT !.len = @ + sepLen]>> \o b
  ELSE Front(a)
       \o <<[Last(a) EXCEPT !.len = @ + sepLen + Head(b).len,
                            !.blank = @ /\ Head(b).blank,
                            !.ids = @ \o Head(b).ids]>>
       \o Tail(b)

\* sep.join(texts)
RECURSIVE JoinTexts(_, _)
JoinTexts(texts, sepLen) ==
  IF texts = <<>> THEN <<>>
  ELSE IF Len(texts) = 1 THEN texts[1]
  ELSE ConcatText(JoinTexts(Front(texts), sepLen), sepLen, Last(texts))

\* the text of one piece
PieceText(p) == <<p>>

\* a variant of estimate_tokens that counts a token per character
estimate_tokens_per_char(text) == TextLen(text)

\* utils.estimate_tokens: len(text) // 4
estimate_tokens(text) == TextLen(text) \div 4

\* a document as issues_to_markdown renders it: the title, date and total,
\* then one block per issue, each starting with "## Issue #n: "
RenderedDocument(ids, lens) ==
  <<Piece(FALSE, HeaderLen, FALSE, <<>>)>>
  \o [i \in 1..Len(ids) |-> Piece(TRUE, lens[i], FALSE, <<ids[i]>>)]

----------------------------------------------------------------------------
(* LLMSummarizer._chunk_content *)

\* issues = re.split(r'(?=## Issue #\d+:)', content);
\* issues = [i for i in issues if i.strip()]
SplitByIssues(text) ==
  LET NotBlank(p) == ~p.blank
  IN  SelectSeq(text, NotBlank)

\* '\n'.join(current_chunk)
JoinLines(current_chunk) ==
  JoinTexts([i \in 1..Len(current_chunk) |-> PieceText(current_chunk[i])], 1)

\* the loop over the issues, from the k-th on
RECURSIVE PackIssues(_, _, _, _, _, _)
PackIssues(issue_pieces, k, packed, current_chunk, current_size, max_tokens) ==
  IF k > Len(issue_pieces)
  THEN IF current_chunk # <<>>
       THEN Append(packed, JoinLines(current_chunk))
       ELSE packed
  ELSE LET issue == issue_pieces[k]
           issue_tokens == estimate_tokens(PieceText(issue))
       IN IF current_size + issue_tokens > max_tokens /\ current_chunk # <<>>
          THEN PackIssues(issue_pieces, k + 1,
                          Append(packed, JoinLines(current_chunk)),
                          <<issue>>, issue_tokens, max_tokens)
          ELSE PackIssues(issue_pieces, k + 1, packed,
                          Append(current_chunk, issue),
                          current_size + issue_tokens, max_tokens)

chunk_content(text, max_tokens) ==
  IF estimate_tokens(text) <= max_tokens
  THEN <<text>>
  ELSE PackIssues(SplitByIssues(text), 1, <<>>, <<>>, 0, max_tokens)

----------------------------------------------------------------------------
(* LLMSummarizer._call_llm, summarize_content, summarize_repository *)

\* repo_info = f" for {owner}/{repo}"
repo_info == " for owner/repo"

\* _create_user_prompt(chunk, repo_info): part is None, or <<<<i, n>>>> for
\* the prefix " (Part i/n"
UserPrompt(chunk, part, info) ==
  [kind |-> "analyze", content |-> chunk, summaries |-> <<>>,
   part |-> part, repo_info |-> info]

\* final_prompt: "\n\n---\n\n".join(chunk_summaries) after the instructions
FinalPrompt(summaries, info) ==
  [kind |-> "consolidate", content |-> <<>>, summaries |-> summaries,
   part |-> None, repo_info |-> info]

\* what the LLM API does with a request: it answers some text, or fails
Summaries == {"summary A", "summary B"}
ApiOutcomes ==
  { [kind |-> "text", text |-> t] : t \in Summaries }
  \cup { [kind |-> "error", text |-> ""] }

\* a variant of _call_llm that swallows the exception of the API
call_llm_swallowing(outcome) == [kind |-> "return", text |-> outcome.text]

\* _call_llm: returns the text of the answer; an exception of the API is
\* printed and raised again
call_llm(outcome) ==
  IF outcome.kind = "error"
  THEN [kind |-> "raise", text |-> ""]
  ELSE [kind |-> "return", text |-> outcome.text]

\* a variant of the append that puts the newest summary first
PrependSummary(summaries, s) == <<s>> \o summaries

\* chunk_summaries.append(summary)
AppendSummary(summaries, s) == Append(summaries, s)

\* the request of _call_llm(system_prompt, prompt) and the API's outcome
LlmCall(prompt, outcome) ==
  llmCalls' = Append(llmCalls, [prompt |-> prompt, outcome |-> outcome])

\* _call_llm raised: the exception leaves summarize_content and
\* summarize_repository
LlmRaised ==
  /\ mpc' = "raised"
  /\ UNCHANGED <<chunk_summaries, summary>>

\* summarize_repository up to the first LLM call: the issue files are
\* loaded (FileNotFoundError when there is none), joined with "\n\n" and
\* cut into chunks
SummarizeStart ==
  /\ mpc = "start"
  /\ IF issue_contents = <<>>
     THEN mpc' = "raised" /\ UNCHANGED <<content, content_chunks>>
     ELSE LET combined_content == JoinTexts(issue_contents, 2)
              cs == chunk_content(combined_content, budget)
          IN /\ content' = combined_content
             /\ content_chunks' = cs
             /\ mpc' = IF Len(cs) = 1 THEN "single" ELSE "parts"
  /\ UNCHANGED <<issue_contents, chunk_summaries, llmCalls, summary,
                 summaryFiles>>

\* if len(chunks) == 1: return self._call_llm(...)
SummarizeSingle ==
  /\ mpc = "single"
  /\ \E outcome \in ApiOutcomes :
       /\ LlmCall(UserPrompt(content_chunks[1], None, repo_info), outcome)
       /\ IF call_llm(outcome).kind = "return"
          THEN /\ summary' = Some(call_llm(outcome).text)
               /\ mpc' = "write"
               /\ UNCHANGED chunk_summaries
          ELSE LlmRaised
  /\ UNCHANGED <<issue_contents, content, content_chunks, summaryFiles>>

\* for i, chunk in enumerate(chunks, 1): one call per chunk
SummarizePart ==
  /\ mpc = "parts"
  /\ \E outcome \in ApiOutcomes :
       LET i == Len(chunk_summaries) + 1
           n == Len(content_chunks)
       IN /\ LlmCall(UserPrompt(content_chunks[i], Some(<<i, n>>), repo_info),
                     outcome)
          /\ IF call_llm(outcome).kind = "return"
             THEN /\ chunk_summaries' =
                       AppendSummary(chunk_summaries, call_llm(outcome).text)
                  /\ mpc' = IF i < n THEN "parts" ELSE "final"
                  /\ UNCHANGED summary
             ELSE LlmRaised
  /\ UNCHANGED <<issue_contents, content, content_chunks, summaryFiles>>

\* return self._call_llm(system_prompt, final_prompt)
SummarizeFinal ==
  /\ mpc = "final"
  /\ \E outcome \in ApiOutcomes :
       /\ LlmCall(FinalPrompt(chunk_summaries, repo_info), outcome)
       /\ IF call_llm(outcome).kind = "return"
          THEN /\ summary' = Some(call_llm(outcome).text)
               /\ mpc' = "write"
               /\ UNCHANGED chunk_summaries
          ELSE LlmRaised
  /\ UNCHANGED <<issue_contents, content, content_chunks, summaryFiles>>

\* the summary file is written: {repo_name}_summary.md
SummarizeWrite ==
  /\ mpc = "write"
  /\ summaryFiles' = WriteFile(summaryFiles, "summary", summary[1])
  /\ mpc' = "done"
  /\ UNCHANGED <<issue_contents, content, content_chunks, chunk_summaries,
                 llmCalls, summary>>

SummIdle ==
  /\ issue_contents = <<>>
  /\ content = <<>>
  /\ content_chunks = <<>>
  /\ chunk_summaries = <<>>
  /\ llmCalls = <<>>
  /\ summary = None
  /\ summaryFiles = {}
  /\ mpc = "idle"
  /\ budget = default_max_tokens

----------------------------------------------------------------------------
(* The specifications *)

MaxIssuesChoices == {None, Some(0), Some(1), Some(2), Some(per_page)}

ReqInit ==
  /\ stack = <<>>
  /\ phase = "idle"
  /\ response = None
  /\ resetIn = 0
  /\ exception = "none"
  /\ getFailures = 0

FetchIdle ==
  /\ max_issues = None
  /\ page = 1
  /\ issues = <<>>
  /\ fpc = "idle"
  /\ drift = 0

\* fetch_issues(owner, repo, max_issues) is entered
InitFetch ==
  /\ ReqInit
  /\ max_issues \in MaxIssuesChoices
  /\ page = 1
  /\ issues = <<>>
  /\ fpc = "loop"
  /\ drift = 0
  /\ RenderIdle
  /\ CliIdle
  /\ SummIdle

NextFetch ==
  \/ (FetchRequestPage /\ UNCHANGED <<renderVars, cliVars, summVars, callVars, chunkVars>>)
  \/ (ServerAnswersPage /\ UNCHANGED <<renderVars, cliVars, summVars, callVars, chunkVars>>)
  \/ (FetchSleeps /\ UNCHANGED <<renderVars, cliVars, summVars, callVars, chunkVars>>)
  \/ (FetchProcessPage /\ UNCHANGED <<renderVars, cliVars, summVars, callVars, chunkVars>>)
  \/ (FetchHandleException /\ UNCHANGED <<renderVars, cliVars, summVars, callVars, chunkVars>>)
  \/ (TrackerOpensIssue /\ UNCHANGED <<renderVars, cliVars, summVars, callVars, chunkVars>>)
  \/ (TrackerClosesIssue /\ UNCHANGED <<renderVars, cliVars, summVars, callVars, chunkVars>>)

\* the issues fetch_issues may have returned: n issues, newest first, those
\* whose position is in cs reporting comments
FetchedIssues(n, cs) ==
  [i \in 1..n |-> [number |-> n - i + 1,
                   comments |-> IF i \in cs THEN 2 ELSE 0]]

\* save_issues after fetch_issues returned, in the fetch-issues command
InitRender ==
  /\ ReqInit
  /\ FetchIdle
  /\ no_comments \in BOOLEAN
  /\ \/ /\ max_issues_per_file \in 1..MaxPerFile
        /\ fetched \in { FetchedIssues(n, cs) : n \in 0..MaxIssues,
                                                cs \in SUBSET (1..MaxIssues) }
     \/ /\ max_issues_per_file = default_max_per_file
        /\ fetched = FetchedIssues(120, {})
  /\ chunks = <<>>
  /\ ci = 1
  /\ ii = 1
  /\ markdown_parts = <<>>
  /\ files = {}
  /\ saved_files = <<>>
  /\ commentRequests = {}
  /\ rpc = "start"
  /\ CliIdle
  /\ SummIdle

NextRender ==
  \/ (SaveIssuesStart /\ UNCHANGED <<fetchVars, cliVars, summVars, callVars, chunkVars>>)
  \/ (RenderIssue /\ UNCHANGED <<fetchVars, cliVars, summVars, callVars, chunkVars>>)
  \/ (ServerAnswersComments /\ UNCHANGED <<fetchVars, cliVars, summVars, callVars, chunkVars>>)
  \/ (RenderSleeps /\ UNCHANGED <<fetchVars, cliVars, summVars, callVars, chunkVars>>)
  \/ (FetchCommentsReturn /\ UNCHANGED <<fetchVars, cliVars, summVars, callVars, chunkVars>>)
  \/ (FetchCommentsException /\ UNCHANGED <<fetchVars, cliVars, summVars, callVars, chunkVars>>)

\* a command is started with a command line and an environment
InitCli ==
  /\ ReqInit
  /\ FetchIdle
  /\ RenderIdle
  /\ command \in {"fetch-issues", "summarize", "fetch-and-summarize"}
  /\ opts \in [repo_url : BOOLEAN, token : BOOLEAN,
               provider : {None, Some("openai"), Some("anthropic")}]
  /\ env \in [GITHUB_TOKEN : BOOLEAN,
              LLM_PROVIDER : {None, Some("openai"), Some("anthropic"),
                              Some("other")},
              OPENAI_API_KEY : BOOLEAN, ANTHROPIC_API_KEY : BOOLEAN]
  /\ cpc = FirstStep(command)
  /\ error = "none"
  /\ githubRequests = FALSE
  /\ llmRequests = FALSE
  /\ SummIdle

NextCli ==
  \/ (CliParseUrl /\ UNCHANGED <<reqVars, fetchVars, renderVars, summVars, callVars, chunkVars>>)
  \/ (CliMakeScraper /\ UNCHANGED <<reqVars, fetchVars, renderVars, summVars, callVars, chunkVars>>)
  \/ (CliSaveIssues /\ UNCHANGED <<reqVars, fetchVars, renderVars, summVars, callVars, chunkVars>>)
  \/ (CliMakeSummarizer /\ UNCHANGED <<reqVars, fetchVars, renderVars, summVars, callVars, chunkVars>>)
  \/ (CliSummarizeRepository /\ UNCHANGED <<reqVars, fetchVars, renderVars, summVars, callVars, chunkVars>>)

\* the sizes, in characters, of the issue blocks of the documents
BlockLens == {200, 250000 - HeaderLen, 4 * default_max_tokens}

\* the documents of a repository whose issue blocks, in order, have the
\* sizes lens, a document ending with each block whose position is in ends
\* and with the last block; issues are numbered by their position
RECURSIVE DocumentsFrom(_, _, _)
DocumentsFrom(lens, ends, from) ==
  IF from > Len(lens) THEN <<>>
  ELSE LET stops == {e \in ends \cup {Len(lens)} : e >= from /\ e <= Len(lens)}
           to == CHOOSE e \in stops : \A e2 \in stops : e <= e2
           n == to - from + 1
       IN <<RenderedDocument([i \in 1..n |-> from + i - 1],
                             [i \in 1..n |-> lens[from + i - 1]])>>
          \o DocumentsFrom(lens, ends, to + 1)

\* what load_issue_files may return: no file (it raises), or up to MaxDocs
\* rendered documents holding up to MaxBlocks issues together
IssueContents ==
  {<<>>} \cup
  { DocumentsFrom(lens, ends, 1) :
      lens \in UNION { [1..m -> BlockLens] : m \in 1..MaxBlocks },
      ends \in { e \in SUBSET (1..(MaxBlocks - 1)) : Cardinality(e) < MaxDocs } }

\* summarize_repository(repo_name, issues_dir, output_dir) is entered
InitSumm ==
  /\ ReqInit
  /\ FetchIdle
  /\ RenderIdle
  /\ CliIdle
  /\ issue_contents \in IssueContents
  /\ content = <<>>
  /\ content_chunks = <<>>
  /\ chunk_summaries = <<>>
  /\ llmCalls = <<>>
  /\ summary = None
  /\ summaryFiles = {}
  /\ mpc = "start"
  /\ budget = default_max_tokens

NextSumm ==
  \/ (SummarizeStart /\ UNCHANGED <<reqVars, fetchVars, renderVars, cliVars, callVars, chunkVars>>)
  \/ (SummarizeSingle /\ UNCHANGED <<reqVars, fetchVars, renderVars, cliVars, callVars, chunkVars>>)
  \/ (SummarizePart /\ UNCHANGED <<reqVars, fetchVars, renderVars, cliVars, callVars, chunkVars>>)
  \/ (SummarizeFinal /\ UNCHANGED <<reqVars, fetchVars, renderVars, cliVars, callVars, chunkVars>>)
  \/ (SummarizeWrite /\ UNCHANGED <<reqVars, fetchVars, renderVars, cliVars, callVars, chunkVars>>)

\* the requests the scraper makes: a page of the issues, the comments of
\* an issue
Requests ==
  { [url |-> IssuesUrl, params |-> Some(p)] : p \in 1..MaxPages }
  \cup { [url |-> CommentsUrl(n), params |-> None] : n \in 1..MaxIssues }

\* 200 responses to a request
OkResponses(url) ==
  IF url = IssuesUrl THEN IssuePages(1) ELSE CommentPages(url.number)

\* a caller calls self._make_request(url, params)
RequestCall ==
  /\ phase = "idle"
  /\ \E q \in Requests : CallMakeRequest(q.url, q.params)
  /\ getFailures' = 0

\* session.get returns a response that passes raise_for_status
RequestGetOk ==
  /\ stack # <<>>
  /\ \E r \in OkResponses(Last(stack).url) : GetOk(r)
  /\ UNCHANGED getFailures

\* session.get returns a 4xx/5xx
RequestGetError ==
  \E r \in ErrorResponses :
    /\ GetError(r)
    /\ getFailures' = IF RateLimitExhausted(r) THEN getFailures
                       ELSE getFailures + 1

\* session.get raises
RequestGetConnectionError ==
  /\ GetConnectionError
  /\ getFailures' = getFailures + 1

RequestSleeps ==
  /\ SleepAndRetry
  /\ UNCHANGED getFailures

\* the caller goes on with the response, or with the exception
RequestOver ==
  /\ phase \in {"ret", "exc"}
  /\ phase' = "idle"
  /\ UNCHANGED <<stack, response, resetIn, exception, getFailures>>

\* the scraper is constructed; its callers call _make_request
InitRequest ==
  /\ ReqInit
  /\ FetchIdle
  /\ RenderIdle
  /\ CliIdle
  /\ SummIdle

NextRequest ==
  \/ (RequestCall /\ UNCHANGED <<fetchVars, renderVars, cliVars, summVars, chunkVars>>)
  \/ (RequestGetOk /\ UNCHANGED <<fetchVars, renderVars, cliVars, summVars, chunkVars>>)
  \/ (RequestGetError /\ UNCHANGED <<fetchVars, renderVars, cliVars, summVars, chunkVars>>)
  \/ (RequestGetConnectionError /\ UNCHANGED <<fetchVars, renderVars, cliVars, summVars, chunkVars>>)
  \/ (RequestSleeps /\ UNCHANGED <<fetchVars, renderVars, cliVars, summVars, chunkVars>>)
  \/ (RequestOver /\ UNCHANGED <<fetchVars, renderVars, cliVars, summVars, chunkVars>>)

\* the sizes, in characters, of the issue blocks of the contents handed to
\* _chunk_content alone, and the budgets
SmallBlockLens == {200, 203, 400}
Budgets == {40, 60, 75, 100, 150}

\* the contents: the documents of a repository joined with "\n\n"
Contents ==
  { JoinTexts(DocumentsFrom(lens, ends, 1), 2) :
      lens \in UNION { [1..m -> SmallBlockLens] : m \in 1..MaxBlocks },
      ends \in { e \in SUBSET (1..(MaxBlocks - 1)) : Cardinality(e) < MaxDocs } }

\* chunks = self._chunk_content(content, max_tokens)
ChunkContent ==
  /\ mpc = "chunk"
  /\ content_chunks' = chunk_content(content, budget)
  /\ mpc' = "chunked"
  /\ UNCHANGED <<issue_contents, content, chunk_summaries, llmCalls, summary,
                 summaryFiles, budget>>

\* _chunk_content(content, max_tokens) is entered
InitChunk ==
  /\ ReqInit
  /\ FetchIdle
  /\ RenderIdle
  /\ CliIdle
  /\ issue_contents = <<>>
  /\ content \in Contents
  /\ budget \in Budgets
  /\ content_chunks = <<>>
  /\ chunk_summaries = <<>>
  /\ llmCalls = <<>>
  /\ summary = None
  /\ summaryFiles = {}
  /\ mpc = "chunk"

NextChunk ==
  \/ (ChunkContent /\ UNCHANGED <<reqVars, fetchVars, renderVars, cliVars, callVars>>)

\* the numbers of issues the fetch of a save may return
SaveCounts == {1, 2, 3, 10}

\* save_issues is called again for the same repository and directory: the
\* files of the earlier saves are there
SaveIssuesAgain ==
  /\ rpc = "returned"
  /\ mpc = "idle"
  /\ \E n \in SaveCounts : fetched' = FetchedIssues(n, {})
  /\ chunks' = <<>>
  /\ ci' = 1
  /\ ii' = 1
  /\ markdown_parts' = <<>>
  /\ saved_files' = <<>>
  /\ rpc' = "start"
  /\ UNCHANGED <<no_comments, max_issues_per_file, files, commentRequests>>

\* issue_contents = load_issue_files(repo_name, issues_dir), after a save
LoadIssueFiles ==
  /\ rpc = "returned"
  /\ mpc = "idle"
  /\ issue_contents' = load_issue_files(files).contents
  /\ mpc' = IF load_issue_files(files).kind = "return" THEN "loaded"
            ELSE "raised"
  /\ UNCHANGED <<content, content_chunks, chunk_summaries, llmCalls, summary,
                 summaryFiles, budget>>

\* the first save_issues into an empty directory, one issue per file
InitSaveLoad ==
  /\ ReqInit
  /\ FetchIdle
  /\ no_comments = FALSE
  /\ max_issues_per_file = 1
  /\ fetched \in { FetchedIssues(n, {}) : n \in SaveCounts }
  /\ chunks = <<>>
  /\ ci = 1
  /\ ii = 1
  /\ markdown_parts = <<>>
  /\ files = {}
  /\ saved_files = <<>>
  /\ commentRequests = {}
  /\ rpc = "start"
  /\ CliIdle
  /\ SummIdle

NextSaveLoad ==
  \/ (SaveIssuesStart /\ UNCHANGED <<fetchVars, cliVars, summVars, callVars, chunkVars>>)
  \/ (RenderIssue /\ UNCHANGED <<fetchVars, cliVars, summVars, callVars, chunkVars>>)
  \/ (SaveIssuesAgain /\ UNCHANGED <<reqVars, fetchVars, cliVars, summVars, callVars, chunkVars>>)
  \/ (LoadIssueFiles /\ UNCHANGED <<reqVars, fetchVars, renderVars, cliVars, callVars>>)

vars == <<reqVars, fetchVars, renderVars, cliVars, summVars, callVars,
          chunkVars>>

SpecChunk == InitChunk /\ [][NextChunk]_vars

SpecSaveLoad == InitSaveLoad /\ [][NextSaveLoad]_vars

SpecRequest == InitRequest /\ [][NextRequest]_vars

SpecFetch == InitFetch /\ [][NextFetch]_vars

SpecRender == InitRender /\ [][NextRender]_vars

SpecCli == InitCli /\ [][NextCli]_vars

SpecSumm == InitSumm /\ [][NextSumm]_vars

----------------------------------------------------------------------------
(* Properties *)

RECURSIVE Concat(_)
Concat(ss) == IF ss = <<>> THEN <<>> ELSE Head(ss) \o Concat(Tail(ss))

CeilDiv(n, k) == (n + k - 1) \div k

\* C1: when a page request of fetch_issues fails and the retries of
\* _make_request are exhausted, fetch_issues raises nothing: it stops
\* paging and returns the issues of the pages fetched before.
C1_PartialResultOnFailure ==
  (exception = "RetryError" /\ phase = "idle") => fpc = "returned"

\* C2: every 403 response with zero remaining quota, whatever its reset
\* time, makes the request wait (the attempts are left as they were and
\* nothing is raised), and the wait ends after the reset time plus one
\* second with the same request sent again.
C2_RateLimitWaitsAndRetries ==
  [][ /\ (phase = "get" /\ response' # None /\ RateLimitExhausted(response'[1]))
         => (phase' = "sleep" /\ stack' = stack /\ exception' = "none")
      /\ (phase = "sleep")
         => /\ resetIn' + 1 <= 0
            /\ phase' = "get"
            /\ Front(stack') = stack
            /\ Last(stack').url = Last(stack).url
            /\ Last(stack').params = Last(stack).params ]_vars

\* C3: when the comments request of an issue fails with its retries
\* exhausted, rendering does not fail: the issue is rendered without
\* comments and save_issues goes on.
C3_CommentFailureIsNotFatal ==
  (exception = "RetryError" /\ phase = "idle") => rpc # "raised"

\* C4: a command that ends on a configuration error (no GitHub token, no
\* API key for the provider, an unsupported provider, a malformed URL) has
\* sent no request, neither to the issue tracker nor to an LLM API.
C4_ConfigErrorBeforeAnyRequest ==
  error = "config" => (~githubRequests /\ ~llmRequests)

\* C5: when the content is cut into N > 1 chunks and no LLM call fails,
\* there are N + 1 LLM calls: the i-th carries chunk i labelled Part i/N,
\* the last one carries the N partial summaries in chunk order, and its
\* answer is the summary returned.
C5_MapThenReduce ==
  (mpc \in {"write", "done"} /\ Len(content_chunks) > 1) =>
    LET n == Len(content_chunks)
    IN /\ Len(llmCalls) = n + 1
       /\ \A i \in 1..n :
            llmCalls[i].prompt =
              UserPrompt(content_chunks[i], Some(<<i, n>>), repo_info)
       /\ llmCalls[n + 1].prompt =
            FinalPrompt([i \in 1..n |-> llmCalls[i].outcome.text], repo_info)
       /\ summary = Some(llmCalls[n + 1].outcome.text)

C5_Witness ==
  /\ mpc = "done"
  /\ Len(content_chunks) >= 3
  /\ llmCalls[1].outcome.text # llmCalls[2].outcome.text

\* C6: a failed LLM call is the last LLM call of the summarization, the
\* failure leaves summarize_repository, and no summary file is written.
C6_LlmFailureAborts ==
  \A k \in 1..Len(llmCalls) :
    llmCalls[k].outcome.kind = "error" =>
      /\ k = Len(llmCalls)
      /\ mpc = "raised"
      /\ summary = None
      /\ summaryFiles = {}

C6_Witness ==
  /\ mpc = "raised"
  /\ Len(llmCalls) = 2
  /\ Len(content_chunks) >= 3
  /\ llmCalls[2].outcome.kind = "error"

\* C7 as stated: a single document of 250,000 characters is cut into more
\* than one chunk and summarized with chunkCount + 1 LLM calls.
C7_SplitsAt250000Chars ==
  (mpc = "done" /\ Len(issue_contents) = 1 /\ TextLen(content) = 250000) =>
    (Len(content_chunks) > 1 /\ Len(llmCalls) = Len(content_chunks) + 1)

\* C7, amended: a single document of 250,000 characters is estimated at
\* 62,500 tokens, within the budget of 100,000: it is one chunk, equal to
\* the document, and it is summarized with exactly one LLM call.
C7_OneChunkAt250000Chars ==
  (mpc = "done" /\ Len(issue_contents) = 1 /\ TextLen(content) = 250000) =>
    (content_chunks = <<content>> /\ Len(llmCalls) = 1)

C7_Witness ==
  mpc = "done" /\ Len(issue_contents) = 1 /\ TextLen(content) = 250000

\* C8: the N issues are partitioned into ceil(N/k) documents of at most k
\* issues each, whose issues, in document order, are the N issues; 120
\* issues with k = 50 give documents of 50, 50 and 20 issues.
C8_Partition ==
  rpc \notin {"idle", "start"} =>
    /\ Len(chunks) = CeilDiv(Len(fetched), max_issues_per_file)
    /\ \A c \in 1..Len(chunks) : Len(chunks[c]) <= max_issues_per_file
    /\ Concat(chunks) = fetched
    /\ (Len(fetched) = 120 /\ max_issues_per_file = 50) =>
         [c \in 1..Len(chunks) |-> Len(chunks[c])] = <<50, 50, 20>>
    /\ rpc = "returned" =>
         /\ Len(saved_files) = Len(chunks)
         /\ \A c \in 1..Len(chunks) :
              \E f \in files :
                /\ f.name = saved_files[c]
                /\ f.content.total = Len(chunks[c])
                /\ [b \in 1..Len(f.content.blocks) |-> f.content.blocks[b].number]
                   = [b \in 1..Len(chunks[c]) |-> chunks[c][b].number]

C8_Witness ==
  /\ rpc = "returned"
  /\ Len(fetched) = 120
  /\ max_issues_per_file = 50
  /\ Len(saved_files) = 3

\* C9: a comments request is sent for an issue only when comment inclusion
\* is requested and the issue reports comments; with --no-comments no
\* comments request is sent.
C9_CommentsOnlyWhenRequested ==
  \A n \in commentRequests :
    /\ ~no_comments
    /\ \E i \in 1..Len(fetched) :
         fetched[i].number = n /\ fetched[i].comments > 0

\* C10: for every max_issues >= 0, fetch_issues returns at most max_issues
\* issues, and the loop does not go on to another page once that many
\* issues are accumulated.
C10_AtMostMaxIssues ==
  max_issues # None =>
    /\ fpc = "returned" => Len(issues) <= max_issues[1]
    /\ (fpc = "loop" /\ page > 1) => Len(issues) < max_issues[1]

\* C11: for one call of _make_request by its caller, whatever the server
\* answers (403 responses with zero quota left among other failures), at
\* most 3 GET attempts end in a failure that is not such a 403 before the
\* call gives up.
C11_AtMostThreeFailedAttempts ==
  getFailures <= stop_after_attempt

\* C12: when the response of a page has no Link header and the cap is not
\* reached, fetch_issues stops paging exactly when the API returned fewer
\* than per_page items on that page, pull requests counted; a page of
\* per_page items is followed by the request of the next page.
C12_StopsExactlyOnShortPage ==
  [][ ( /\ fpc = "loop"
        /\ phase = "ret"
        /\ response[1].link = "absent"
        /\ ~CapReached(issues \o WithoutPullRequests(response[1].json),
                       max_issues) )
      => /\ (fpc' = "returned") <=> (Len(response[1].json) < per_page)
         /\ (Len(response[1].json) = per_page)
              => (fpc' = "loop" /\ page' = page + 1) ]_vars

\* C13: the sequence fetch_issues returns never holds two records with the
\* same issue number, also when issues are opened or closed on the tracker
\* between two page requests.
C13_UniqueNumbers ==
  fpc = "returned" =>
    Cardinality({issues[i].number : i \in DOMAIN issues}) = Len(issues)

\* the complete issue blocks of a text
IssueBlocksOf(text) == SelectSeq(text, LAMBDA p : p.marker)

\* C14: for every document with an issue and every token budget, each
\* chunk _chunk_content returns holds at least one complete issue block:
\* none is made of the document header or other text outside the issues.
C14_EveryChunkHasAnIssue ==
  mpc = "chunked" =>
    \A c \in 1..Len(content_chunks) : IssueBlocksOf(content_chunks[c]) # <<>>

\* C15: for every document and budget, every chunk _chunk_content returns
\* is estimated (its length in characters divided by 4) at no more than
\* the budget, unless it is a single issue estimated above the budget.
C15_ChunkWithinBudget ==
  mpc = "chunked" =>
    \A c \in 1..Len(content_chunks) :
      \/ estimate_tokens(content_chunks[c]) <= budget
      \/ /\ Len(content_chunks[c]) = 1
         /\ content_chunks[c][1].marker
         /\ Len(content_chunks[c][1].ids) = 1

\* the content of the file of a name in a directory
ContentOf(dir, name) == (CHOOSE f \in dir : f.name = name).content

\* C16: after save_issues wrote the documents of a fetch into the issues
\* directory, load_issue_files returns exactly the documents of that most
\* recent save, in the order of their index, whatever their number (one,
\* more than 9) and whatever earlier saves left in the directory.
C16_LoadReturnsLastSave ==
  mpc = "loaded" =>
    issue_contents =
      [c \in 1..Len(saved_files) |-> ContentOf(files, saved_files[c])]

====
